---- MODULE Spec2Model ----
(***************************************************************************)
(* Model of the depi container (src/depi/services.py): the registry        *)
(* (ServiceCollection), the descriptors (DependencyRegistration), the      *)
(* graph validator (ServiceProvider._topological_sort), the provider       *)
(* (ServiceProvider) and the scope (ServiceScope).                         *)
(*                                                                         *)
(* Types stand for Python classes.  An instance is a positive number, the  *)
(* index of its record in insts; 0 stands for Python's None.               *)
(***************************************************************************)
EXTENDS Integers, Sequences, FiniteSets, TLC

\* ------------------------------------------------------------------------
\* Bounds and universes
\* ------------------------------------------------------------------------

\* Number of instances that resolve calls issued after build may construct.
MaxInst == 3
\* The caller's count of one call repeated with one outcome stops here.
MaxRepeat == 3

\* The classes of a program.
Types == {"A", "B", "C"}

\* The scopes a provider hands out, and the caller threads.
Scopes == {"s1", "s2"}
Threads == {"t1", "t2"}

\* The resolver handed to factories and activation: the root provider or a scope.
Root == "P"

\* threading.Lock: free, or held by a thread ("main" runs registration and build).
Free == "free"
Main == "main"

\* Lifetime (src/depi/services.py:27-33)
Singleton == "singleton"
Transient == "transient"
Scoped == "scoped"

\* Python's None for an instance slot.
NoInst == 0

\* A constructor parameter without annotation (inspect.Parameter.empty).
Unannotated == "?"
\* In the list of what a factory does, after the resolve calls: "raise".
Boom == "!"
\* In the list of what a factory resolves: the place where an "async def"
\* factory awaits something that is not ready, and the task is suspended.
Await == "~"
\* the class of the object that calling an "async def" factory returns
Coroutine == "coroutine"

\* ------------------------------------------------------------------------
\* Errors
\* ------------------------------------------------------------------------
NoError == [kind |-> "none", id |-> "-", req |-> "-"]

\* "Cyclic dependency detected: {dep._type_name}"
CyclicDependency(name) == [kind |-> "cyclic", id |-> name, req |-> "-"]

\* "Failed to locate registration for '{T}' [while instantiating '{R}']"
UnregisteredDependency(id, req) == [kind |-> "unregistered", id |-> id, req |-> req]

\* "Scoped resolution requires a scope. Call provider.create_scope()."
ScopeRequired(id) == [kind |-> "scope_required", id |-> id, req |-> "-"]

\* "Unknown lifetime: {lifetime}"
InvalidLifetime(id) == [kind |-> "invalid_lifetime", id |-> id, req |-> "-"]

\* "Missing type annotation for parameter '{name}' in {T}"
MissingDependencyAnnotation(name) == [kind |-> "missing_annotation", id |-> name, req |-> "-"]

\* RecursionError raised by the interpreter on unbounded mutual resolution.
\* the exception a factory of the program raises
FactoryError == [kind |-> "factory", id |-> "-", req |-> "-"]
InitError == [kind |-> "init", id |-> "-", req |-> "-"]
\* asyncio.CancelledError, raised in a task at the await it is suspended at
CancelledError == [kind |-> "cancelled", id |-> "-", req |-> "-"]
RecursionError(id) == [kind |-> "recursion", id |-> id, req |-> "-"]

\* ------------------------------------------------------------------------
\* Descriptors and the registry
\* ------------------------------------------------------------------------

\* The absent value of dict.get.
NoReg == [dependency_type |-> "-", implementation_type |-> "-", lifetime |-> "-",
          instance |-> NoInst, factory |-> FALSE, fdeps |-> <<>>,
          constructor_params |-> <<>>]

\* DependencyRegistration.__init__: implementation_type defaults to
\* dependency_type, constructor_params to [].  fdeps is the list of types the
\* body of the factory resolves from its resolver argument, in order.
DependencyRegistration(dependency_type, lifetime, implementation_type, instance, factory, fdeps, constructor_params) ==
    [dependency_type     |-> dependency_type,
     implementation_type |-> IF implementation_type = "-" THEN dependency_type
                             ELSE implementation_type,
     lifetime            |-> lifetime,
     instance            |-> instance,
     factory             |-> factory,
     fdeps               |-> IF factory THEN fdeps ELSE <<>>,
     constructor_params  |-> constructor_params]

\* DependencyRegistration.__eq__ / __hash__: two registrations are the same
\* set element when their implementation types are equal.
RegKey(reg) == reg.implementation_type

\* dict.get on the registry (a dict in insertion order, here a sequence with
\* one entry per key).
IndexOf(container, ty) ==
    LET hits == {i \in 1..Len(container) : container[i].dependency_type = ty}
    IN IF hits = {} THEN 0 ELSE CHOOSE i \in hits : TRUE

Lookup(container, ty) ==
    IF IndexOf(container, ty) = 0 THEN NoReg ELSE container[IndexOf(container, ty)]

\* a registry that keeps every descriptor it was given
DictAppend(container, reg) == Append(container, reg)

\* self._container[dependency_type] = reg: a known key keeps its position.
DictSet(container, reg) ==
    LET i == IndexOf(container, reg.dependency_type)
    IN IF i = 0 THEN Append(container, reg) ELSE [container EXCEPT ![i] = reg]


\* ------------------------------------------------------------------------
\* State
\* ------------------------------------------------------------------------
VARIABLES
    ctor,                 \* class -> the annotated parameter types of its __init__
    hooks,                \* class -> its dispose method: "none", "ok" or "raises";
                          \* "init_raises" for a class whose __init__ raises
    todo,                 \* the registration calls the program has still to make
    container,            \* ServiceCollection._container, in insertion order
    phase,                \* "register", then "built", "failed" or "hung"
    error,                \* the exception build_provider raised, or NoError
    singleton_instances,  \* ServiceProvider._singleton_instances
    cache_lock,           \* ServiceProvider._cache_lock: Free or its holder
    insts,                \* every object made so far: the heap
    scope_open,           \* the scopes create_scope has returned
    scoped_instances,     \* ServiceScope._scoped_instances of each scope
    thr,                  \* each caller thread's position in its resolve call
    rets,                 \* <<resolver, type, instance>> of every resolve that returned
    reused,               \* the objects of Transient registrations that a resolve
                          \* returned after an earlier resolve had returned them
    seen                  \* what the caller saw of its latest call and how often in
                          \* a row, when the specification watches the caller

vars == <<ctor, hooks, todo, container, phase, error, singleton_instances, cache_lock,
          insts, scope_open, scoped_instances, thr, rets, reused, seen>>

\* ------------------------------------------------------------------------
\* ServiceCollection
\* ------------------------------------------------------------------------

\* ServiceCollection.get_type_dependencies: the parameter types of impl's
\* constructor; a parameter without annotation is an error.
HasUnannotated(sig) == \E i \in 1..Len(sig) : sig[i] = Unannotated

\* ServiceCollection._register_dependency of one call
\* c = [dependency_type, implementation_type, lifetime, instance, factory, fdeps]
\* where c.instance is the pre-built object (NoInst for None).
RegisterDependency(sigs, c) ==
    LET impl == IF c.implementation_type = "-" THEN c.dependency_type
                ELSE c.implementation_type
        constructor_params == IF c.factory THEN <<>> ELSE sigs[impl]
    IN DependencyRegistration(c.dependency_type, c.lifetime, impl, c.instance,
                              c.factory, c.fdeps, constructor_params)

\* a registration that does not look at the annotations
RegisterErrorNever(sigs, c) == NoError

\* The error of _register_dependency, raised before anything is stored.
RegisterError(sigs, c) ==
    LET impl == IF c.implementation_type = "-" THEN c.dependency_type
                ELSE c.implementation_type
    IN IF ~c.factory /\ HasUnannotated(sigs[impl])
       THEN MissingDependencyAnnotation(impl) ELSE NoError

\* ------------------------------------------------------------------------
\* ServiceProvider._get_registered_dependency and _topological_sort
\* ------------------------------------------------------------------------

\* an error for a missing registration that names the requester instead of
\* what is missing
GetRegisteredDependencyErrorOfRequester(ty, requesting_type) ==
    IF requesting_type = NoReg THEN UnregisteredDependency("-", "-")
    ELSE UnregisteredDependency(requesting_type.implementation_type, "-")

\* The error raised for a missing registration; requesting_type is the
\* registration being instantiated, NoReg when there is none.
GetRegisteredDependencyError(ty, requesting_type) ==
    IF requesting_type = NoReg THEN UnregisteredDependency(ty, "-")
    ELSE UnregisteredDependency(ty, requesting_type.implementation_type)

RECURSIVE Dfs(_, _, _)
RECURSIVE DfsParams(_, _, _, _)

\* dfs(dep) of _topological_sort on s = [visited, visiting, order, err].
\* visited and visiting are Python sets of registrations, hence sets of
\* RegKey; order lists the registrations by their dependency_type.
Dfs(regs, s, dep) ==
    IF s.err # NoError THEN s
    ELSE IF RegKey(dep) \in s.visited THEN s
    ELSE IF RegKey(dep) \in s.visiting
         THEN [s EXCEPT !.err = CyclicDependency(dep.implementation_type)]
    ELSE LET s1 == DfsParams(regs, [s EXCEPT !.visiting = @ \cup {RegKey(dep)}], dep, 1)
         IN IF s1.err # NoError THEN s1
            ELSE [s1 EXCEPT !.visiting = @ \ {RegKey(dep)},
                            !.visited = @ \cup {RegKey(dep)},
                            !.order = Append(@, dep.dependency_type)]

\* the loop over dep.constructor_params inside dfs
DfsParams(regs, s, dep, i) ==
    IF s.err # NoError \/ i > Len(dep.constructor_params) THEN s
    ELSE LET p == dep.constructor_params[i]
             next_dep == Lookup(regs, p)
         IN IF next_dep = NoReg
            THEN [s EXCEPT !.err = GetRegisteredDependencyError(p, dep)]
            ELSE DfsParams(regs, Dfs(regs, s, next_dep), dep, i + 1)

RECURSIVE DfsAll(_, _, _, _)
\* for d in dependencies: dfs(d)
DfsAll(regs, s, dependencies, i) ==
    IF s.err # NoError \/ i > Len(dependencies) THEN s
    ELSE DfsAll(regs, Dfs(regs, s, dependencies[i]), dependencies, i + 1)

\* ServiceProvider._topological_sort: [err, order]; the order is returned
\* only when no exception left the loop.
TopologicalSort(regs, dependencies) ==
    LET s == DfsAll(regs, [visited |-> {}, visiting |-> {}, order |-> <<>>,
                           err |-> NoError], dependencies, 1)
    IN [err |-> s.err, order |-> IF s.err = NoError THEN s.order ELSE <<>>]

IsSingleton(reg) == reg.lifetime = Singleton


\* ------------------------------------------------------------------------
\* Resolution.  One call chain runs on a machine record m: the registry, the
\* caches, the heap, the lock, the log of returns, and the outcome of the
\* chain so far:
\*   st = "ok"      the call returned m.ret
\*        "raise"   it raised m.err
\*        "hang"    the thread waits for the non-reentrant lock it holds itself
\*        "blocked" the thread waits for the lock another thread holds
\* mode is "sync" for resolve and "async" for resolve_async, which takes the
\* same branches and awaits where resolve calls.
\* ------------------------------------------------------------------------

Modes == {"sync", "async"}

\* The longest chain of nested resolve calls that is not a call repeating
\* itself: a (resolver kind, type) pair can occur once.
MaxDepth == 2 * Cardinality(Types) + 1

Raise(m, e) == [m EXCEPT !.st = "raise", !.err = e]

\* return inst, from resolve of ty on resolver res
Return(m, res, ty, inst) ==
    [m EXCEPT !.st = "ok", !.ret = inst,
              !.rets = @ \cup {<<res, ty, inst>>},
              !.reused = IF Lookup(m.regs, ty).lifetime = Transient
                            /\ \E r \in m.rets : r[3] = inst
                         THEN @ \cup {inst} ELSE @]

\* A constructor call, or a factory body building its object, with the
\* resolved arguments m.args: a new object on the heap.  It remembers the
\* registration it was made for, the objects handed to it, the resolver that
\* made it, the phase it was made in, and how often a dispose has dropped it
\* from a scope.  Nothing is constructed when resolving the arguments did
\* not return, and the exception of an __init__ that raises goes to the
\* caller.
Construct(m, reg, res) ==
    IF m.st # "ok" THEN m
    ELSE IF hooks[reg.implementation_type] = "init_raises" THEN Raise(m, InitError)
    ELSE [m EXCEPT !.insts = Append(@, [id |-> reg.dependency_type,
                                        impl |-> reg.implementation_type,
                                        args |-> m.args, by |-> res,
                                        phase |-> m.phase, released |-> 0,
                                        disposed |-> 0]),
                   !.ret = Len(m.insts) + 1]

\* "return inst" of the value the call chain just produced
ReturnResult(m, res, ty) ==
    IF m.st = "ok" THEN Return(m, res, ty, m.ret) ELSE m

\* cache.get(_type) on ServiceProvider._singleton_instances
SingletonCached(m, ty) == m.cache[ty]

\* a scope that never looks into its cache
ScopedCachedNever(m, s, ty) == NoInst

\* one cache of scoped instances for all the scopes of the provider
ScopedCachedShared(m, s, ty) ==
    LET hits == {x \in Scopes : m.scoped[x][ty] # NoInst}
    IN IF hits = {} THEN NoInst ELSE m.scoped[CHOOSE x \in hits : TRUE][ty]

\* insts.get(_type) on the ServiceScope._scoped_instances of scope s
ScopedCached(m, s, ty) == m.scoped[s][ty]

\* a scope that caches whatever is not a singleton
IsNotSingletonLifetime(reg) == reg.lifetime # Singleton

\* "life is Lifetime.Scoped": the lifetime ServiceScope.resolve caches
IsScopedLifetime(reg) == reg.lifetime = Scoped

RECURSIVE ProviderResolve(_, _, _, _)
RECURSIVE ScopeResolve(_, _, _, _, _)
RECURSIVE ResolveEach(_, _, _, _, _, _)
RECURSIVE ResolveNext(_, _, _, _, _, _)

\* resolver.resolve(ty) / await resolver.resolve_async(ty)
Resolve(m, res, ty, d, mode) ==
    IF res = Root THEN ProviderResolve(m, ty, d, mode)
    ELSE ScopeResolve(m, res, ty, d, mode)

\* {param.name: provider.resolve(param.dependency_type) for param in ...},
\* left to right, stopping at the first call that does not return.
ResolveEach(m, res, deps, acc, d, mode) ==
    IF deps = <<>> THEN [m EXCEPT !.args = acc]
    ELSE IF Head(deps) = Boom THEN Raise(m, FactoryError)
    ELSE IF Head(deps) = Await THEN ResolveEach(m, res, Tail(deps), acc, d, mode)
    ELSE ResolveNext(Resolve(m, res, Head(deps), d, mode), res, Tail(deps), acc, d, mode)

\* the comprehension after one resolve call: m is the machine the call left
ResolveNext(m, res, deps, acc, d, mode) ==
    IF m.st # "ok" THEN m
    ELSE ResolveEach(m, res, deps, Append(acc, m.ret), d, mode)

\* DependencyRegistration.activate(provider) and activate_async(provider),
\* and the _resolver_fn closure of _register_dependency, which does what
\* activate does.
Activate(m, reg, res, d, mode) ==
    Construct(ResolveEach(m, res, reg.constructor_params, <<>>, d, mode), reg, res)

\* an "async def" factory whose body suspends
Suspends(reg) == reg.factory /\ Await \in {reg.fdeps[i] : i \in 1..Len(reg.fdeps)}

\* reg.factory(resolver) of an "async def" factory: a coroutine object; the
\* body of the factory has not run.
CoroutineObject(m, reg, res) ==
    [m EXCEPT !.insts = Append(@, [id |-> reg.dependency_type, impl |-> Coroutine,
                                   args |-> <<>>, by |-> res, phase |-> m.phase,
                                   released |-> 0, disposed |-> 0]),
              !.ret = Len(m.insts) + 1]

\* reg.factory(resolver): the factory resolves reg.fdeps from its argument
\* with resolve and builds its object from them.  resolve_async and
\* build_async await what an "async def" factory returns ("if
\* asyncio.iscoroutine(inst): inst = await inst") and build runs it with
\* asyncio.run: these call with mode "async".  resolve returns the coroutine
\* object as it is.
CallFactory(m, reg, res, d, mode) ==
    IF Suspends(reg) /\ mode = "sync" THEN CoroutineObject(m, reg, res)
    ELSE Construct(ResolveEach(m, res, reg.fdeps, <<>>, d, "sync"), reg, res)

\* a with block that an exception leaves with the lock held
StoreSingletonKeepsLock(m, reg) ==
    IF m.st = "ok"
    THEN Return([m EXCEPT !.cache[reg.dependency_type] = m.ret, !.lock = Free],
                Root, reg.dependency_type, m.ret)
    ELSE m

\* "cache[_type] = instance; return instance" and the end of the with block:
\* m is the machine the creation left.
StoreSingleton(m, reg) ==
    IF m.st = "ok"
    THEN Return([m EXCEPT !.cache[reg.dependency_type] = m.ret, !.lock = Free],
                Root, reg.dependency_type, m.ret)
    ELSE IF m.st = "raise" THEN [m EXCEPT !.lock = Free]
    ELSE m

\* ServiceProvider.resolve / resolve_async, the body of "with
\* self._cache_lock" after the second cache miss (the caller m.t holds the
\* lock): factory, else the registration's instance, else activation; store;
\* release.  An exception releases the lock and stores nothing.
CreateSingleton(m, reg, d, mode) ==
    StoreSingleton(IF reg.factory THEN CallFactory(m, reg, Root, d + 1, mode)
                   ELSE IF reg.instance # NoInst THEN [m EXCEPT !.ret = reg.instance]
                   ELSE Activate(m, reg, Root, d + 1, mode),
                   reg)

\* ServiceProvider.resolve under the lock: the second look at the cache,
\* then creation.
SecondCheck(m, reg, d, mode) ==
    IF SingletonCached(m, reg.dependency_type) # NoInst
    THEN Return([m EXCEPT !.lock = Free], Root, reg.dependency_type,
                SingletonCached(m, reg.dependency_type))
    ELSE CreateSingleton(m, reg, d, mode)

\* ServiceProvider.resolve, the singleton branch after the first cache miss:
\* "with self._cache_lock".  threading.Lock is not reentrant.
LockedResolve(m, reg, d, mode) ==
    IF m.lock = m.t THEN [m EXCEPT !.st = "hang"]
    ELSE IF m.lock # Free THEN [m EXCEPT !.st = "blocked"]
    ELSE SecondCheck([m EXCEPT !.lock = m.t], reg, d, mode)

\* a provider that activates a Scoped registration as it does a Transient
ProviderScopedActivates(m, reg, d, mode) ==
    ReturnResult(Activate(m, reg, Root, d + 1, mode), Root, reg.dependency_type)

\* ServiceProvider.resolve / resolve_async, the Scoped branch
ProviderScoped(m, reg, d, mode) == Raise(m, ScopeRequired(reg.dependency_type))

\* ServiceProvider.resolve(ty) / resolve_async(ty)
ProviderResolve(m, ty, d, mode) ==
    LET reg == Lookup(m.regs, ty)
    IN IF d > MaxDepth THEN Raise(m, RecursionError(ty))
       ELSE IF reg = NoReg THEN Raise(m, GetRegisteredDependencyError(ty, NoReg))
       ELSE IF reg.lifetime = Singleton
            THEN IF SingletonCached(m, ty) # NoInst
                 THEN Return(m, Root, ty, SingletonCached(m, ty))
                 ELSE LockedResolve(m, reg, d, mode)
       ELSE IF reg.lifetime = Transient
            THEN ReturnResult(IF reg.factory THEN CallFactory(m, reg, Root, d + 1, mode)
                              ELSE Activate(m, reg, Root, d + 1, mode),
                              Root, ty)
       ELSE IF reg.lifetime = Scoped THEN ProviderScoped(m, reg, d, mode)
       ELSE Raise(m, InvalidLifetime(ty))

\* "if life is Lifetime.Scoped: insts[_type] = new_inst; return new_inst":
\* m is the machine the creation left.
StoreScoped(m, s, reg) ==
    IF m.st # "ok" THEN m
    ELSE Return(IF IsScopedLifetime(reg)
                THEN [m EXCEPT !.scoped[s][reg.dependency_type] = m.ret]
                ELSE m,
                s, reg.dependency_type, m.ret)

\* ServiceScope.resolve / resolve_async, from "Transient or new Scoped
\* instance" on: build with the scope as resolver, cache a Scoped instance,
\* return.
ScopeCreate(m, s, reg, d, mode) ==
    StoreScoped(IF reg.factory THEN CallFactory(m, reg, s, d + 1, mode)
                ELSE Activate(m, reg, s, d + 1, mode),
                s, reg)

\* a scope that makes its own object for a Singleton, as for a Transient
ScopeResolveOwnSingletons(m, s, ty, d, mode) ==
    LET reg == Lookup(m.regs, ty)
    IN IF d > MaxDepth THEN Raise(m, RecursionError(ty))
       ELSE IF reg = NoReg THEN Raise(m, GetRegisteredDependencyError(ty, NoReg))
       ELSE IF IsScopedLifetime(reg) /\ ScopedCached(m, s, ty) # NoInst
            THEN Return(m, s, ty, ScopedCached(m, s, ty))
       ELSE ScopeCreate(m, s, reg, d, mode)

\* ServiceScope.resolve(ty) / resolve_async(ty) on scope s
ScopeResolve(m, s, ty, d, mode) ==
    LET reg == Lookup(m.regs, ty)
    IN IF d > MaxDepth THEN Raise(m, RecursionError(ty))
       ELSE IF reg = NoReg THEN Raise(m, GetRegisteredDependencyError(ty, NoReg))
       ELSE IF reg.lifetime = Singleton
            THEN ReturnResult(ProviderResolve(m, ty, d, mode), s, ty)
       ELSE IF IsScopedLifetime(reg) /\ ScopedCached(m, s, ty) # NoInst
            THEN Return(m, s, ty, ScopedCached(m, s, ty))
       ELSE ScopeCreate(m, s, reg, d, mode)

\* ------------------------------------------------------------------------
\* ServiceProvider.build
\* ------------------------------------------------------------------------

\* reg.instance = inst on the registration object stored under ty
SetInstance(regs, ty, inst) ==
    [regs EXCEPT ![IndexOf(regs, ty)].instance = inst]

\* "reg.instance = inst" and "self._singleton_instances[...] = inst": m is
\* the machine the construction left.
StoreBuilt(m, reg) ==
    IF m.st # "ok" THEN m
    ELSE [m EXCEPT !.regs = SetInstance(@, reg.dependency_type, m.ret),
                   !.cache[reg.dependency_type] = m.ret]

\* a loop of build that constructs every registration it is given
BuildOneAnew(m, reg, mode) ==
    StoreBuilt(IF reg.factory THEN CallFactory(m, reg, Root, 1, "async")
               ELSE Activate(m, reg, Root, 1, mode),
               reg)

\* one turn of the loop of build: a registration that has an instance is
\* left alone, any other is constructed by its factory or its constructor.
\* The coroutine of an "async def" factory is run to its end.
BuildOne(m, reg, mode) ==
    IF reg.instance # NoInst THEN m
    ELSE StoreBuilt(IF reg.factory THEN CallFactory(m, reg, Root, 1, "async")
                    ELSE Activate(m, reg, Root, 1, mode),
                    reg)

RECURSIVE BuildLoop(_, _, _, _)
\* for reg in sorted_deps: construct what has no instance, set reg.instance,
\* store in the cache under the lock.  An exception ends the loop.
BuildLoop(m, order, i, mode) ==
    IF m.st # "ok" \/ i > Len(order) THEN m
    ELSE BuildLoop(BuildOne(m, Lookup(m.regs, order[i]), mode), order, i + 1, mode)

\* the sort's error surfacing after the constructions
RaiseAfter(m, e) == IF m.st = "ok" /\ e # NoError THEN Raise(m, e) ELSE m

\* build with sorting and construction in one pass: what the sort finished
\* before it raised is constructed all the same
BuildProviderInterleaved(m) ==
    LET to_build == SelectSeq(m.regs, IsSingleton)
        s == DfsAll(m.regs, [visited |-> {}, visiting |-> {}, order |-> <<>>,
                             err |-> NoError], to_build, 1)
    IN RaiseAfter(BuildLoop(m, s.order, 1, "sync"), s.err)

\* ServiceProvider.build: select the singletons, sort, then construct.
BuildProvider(m) ==
    LET to_build == SelectSeq(m.regs, IsSingleton)
        sorted_deps == TopologicalSort(m.regs, to_build)
    IN IF sorted_deps.err # NoError THEN Raise(m, sorted_deps.err)
       ELSE BuildLoop(m, sorted_deps.order, 1, "sync")

\* ------------------------------------------------------------------------
\* The machine record of the current state, and the state of a record
\* ------------------------------------------------------------------------
Machine(t, ph) ==
    [regs |-> container, cache |-> singleton_instances, scoped |-> scoped_instances,
     insts |-> insts, lock |-> cache_lock, rets |-> rets, reused |-> reused,
     st |-> "ok", err |-> NoError, ret |-> NoInst, args |-> <<>>,
     phase |-> ph, t |-> t]

Commit(m) ==
    /\ container' = m.regs
    /\ singleton_instances' = m.cache
    /\ scoped_instances' = m.scoped
    /\ insts' = m.insts
    /\ cache_lock' = m.lock
    /\ rets' = m.rets
    /\ reused' = m.reused

\* The caller's view of its calls.  A specification that watches the caller
\* keeps the latest call that came back, op(res, ty), with its outcome out
\* (NoError when it returned, else the exception it raised) and the number n
\* of times in a row this call came back with this outcome, counted up to
\* MaxRepeat.  A specification that does not watch keeps NotObserved.
NotObserved == [op |-> "unobserved", res |-> "-", ty |-> "-", out |-> NoError, n |-> 0]
NothingSeen == [op |-> "-", res |-> "-", ty |-> "-", out |-> NoError, n |-> 0]

Observe(op, res, ty, out) ==
    seen' = IF seen.op = NotObserved.op THEN seen
            ELSE [op |-> op, res |-> res, ty |-> ty, out |-> out,
                  n |-> IF seen.op = op /\ seen.res = res /\ seen.ty = ty /\ seen.out = out
                        THEN IF seen.n < MaxRepeat THEN seen.n + 1 ELSE MaxRepeat
                        ELSE 1]

\* a thread between two calls
Idle == [pc |-> "idle", res |-> "-", ty |-> "-", mode |-> "-"]

\* the objects constructed by resolve calls issued after build
RunInsts(heap) == {i \in 1..Len(heap) : heap[i].phase = "run"}

\* ------------------------------------------------------------------------
\* Actions: registration and build (the main thread)
\* ------------------------------------------------------------------------

\* One add_singleton / add_transient / add_scoped call of the program.  A
\* pre-built instance is an object the program made before the call.
Register ==
    /\ todo # <<>>
    /\ phase = IF Head(todo).late THEN "built" ELSE "register"
    /\ LET c == Head(todo)
           obj == [id |-> c.dependency_type,
                   impl |-> IF c.implementation_type = "-" THEN c.dependency_type
                            ELSE c.implementation_type,
                   args |-> <<>>, by |-> "user", phase |-> "pre", released |-> 0,
                   disposed |-> 0]
           heap == IF c.prebuilt THEN Append(insts, obj) ELSE insts
           call == [dependency_type |-> c.dependency_type,
                    implementation_type |-> c.implementation_type,
                    lifetime |-> c.lifetime,
                    instance |-> IF c.prebuilt THEN Len(heap) ELSE NoInst,
                    factory |-> c.factory, fdeps |-> c.fdeps]
       IN /\ insts' = heap
          /\ IF RegisterError(ctor, call) # NoError
             THEN /\ error' = RegisterError(ctor, call)
                  /\ phase' = "failed"
                  /\ UNCHANGED container
             ELSE /\ container' = DictSet(container, RegisterDependency(ctor, call))
                  /\ UNCHANGED <<error, phase>>
    /\ todo' = Tail(todo)
    /\ UNCHANGED <<ctor, hooks, singleton_instances, cache_lock, scope_open,
                   scoped_instances, thr, rets, reused, seen>>

\* A registration call inside try/except that raises: the program goes on
\* with its next call.  The exception leaves _register_dependency before
\* the descriptor is made.
TryRegister ==
    /\ todo # <<>>
    /\ phase = "register"
    /\ ~Head(todo).late
    /\ LET c == Head(todo)
           obj == [id |-> c.dependency_type,
                   impl |-> IF c.implementation_type = "-" THEN c.dependency_type
                            ELSE c.implementation_type,
                   args |-> <<>>, by |-> "user", phase |-> "pre", released |-> 0,
                   disposed |-> 0]
           heap == IF c.prebuilt THEN Append(insts, obj) ELSE insts
           call == [dependency_type |-> c.dependency_type,
                    implementation_type |-> c.implementation_type,
                    lifetime |-> c.lifetime,
                    instance |-> IF c.prebuilt THEN Len(heap) ELSE NoInst,
                    factory |-> c.factory, fdeps |-> c.fdeps]
       IN /\ RegisterError(ctor, call) # NoError
          /\ insts' = heap
          /\ error' = RegisterError(ctor, call)
    /\ todo' = Tail(todo)
    /\ UNCHANGED <<ctor, hooks, container, phase, singleton_instances, cache_lock,
                   scope_open, scoped_instances, thr, rets, reused, seen>>

\* build returned the provider, raised, or never returned
BuildDone(m) ==
    /\ Commit(m)
    /\ phase' = IF m.st = "ok" THEN "built"
                ELSE IF m.st = "raise" THEN "failed" ELSE "hung"
    /\ error' = IF m.st = "raise" THEN m.err ELSE NoError

\* ServiceProvider(collection) without build(): a provider whose singletons
\* are made by the first resolve.
NewProvider ==
    /\ phase = "register"
    /\ IF todo = <<>> THEN TRUE ELSE Head(todo).late
    /\ phase' = "built"
    /\ UNCHANGED <<ctor, hooks, todo, container, error, singleton_instances, cache_lock,
                   insts, scope_open, scoped_instances, thr, rets, reused, seen>>

\* ServiceCollection.build_provider: ServiceProvider(self).build()
Build ==
    /\ phase = "register"
    /\ IF todo = <<>> THEN TRUE ELSE Head(todo).late
    /\ BuildDone(BuildProvider(Machine(Main, "build")))
    /\ UNCHANGED <<ctor, hooks, todo, scope_open, thr, seen>>

\* provider.build() or await provider.build_async() once more on the
\* provider build_provider returned: the same cache, the same registry.
BuildAgain ==
    /\ phase = "built"
    /\ thr = [t \in Threads |-> Idle]
    /\ \E m \in {BuildProvider(Machine(Main, "rebuild"))} :
          /\ Cardinality(RunInsts(m.insts)) <= MaxInst
          /\ BuildDone(m)
          /\ Observe("build", Root, "-", IF m.st = "raise" THEN m.err ELSE NoError)
    /\ UNCHANGED <<ctor, hooks, todo, scope_open, thr>>

\* ServiceProvider.__init__ of a further provider: its own cache and lock,
\* the registry of the collection
FreshProvider(m) ==
    [m EXCEPT !.cache = [ty \in Types |-> NoInst], !.lock = Free]

\* collection.build_provider() once more: a second provider from the same
\* registry, which the program uses from now on in place of the first.
SecondProvider ==
    /\ phase = "built"
    /\ thr = [t \in Threads |-> Idle]
    /\ \E m \in {BuildProvider(FreshProvider(Machine(Main, "build2")))} :
          /\ Cardinality(RunInsts(m.insts)) <= MaxInst
          /\ BuildDone(m)
          /\ Observe("build_provider", Root, "-", IF m.st = "raise" THEN m.err ELSE NoError)
    /\ UNCHANGED <<ctor, hooks, todo, scope_open, thr>>

\* ------------------------------------------------------------------------
\* Actions: the caller threads.  A call runs in one step up to the places
\* where another thread can come between a look at a cache and the store
\* that follows it: the wait for the lock and the locked creation in
\* ServiceProvider.resolve, and the creation after a miss in
\* ServiceScope.resolve.
\* ------------------------------------------------------------------------

\* the call returns or raises (or hangs) in this step
Finish(t, res, ty, m) ==
    /\ m.st # "blocked"
    /\ Cardinality(RunInsts(m.insts)) <= MaxInst
    /\ Commit(m)
    /\ IF m.st = "hang" THEN UNCHANGED seen
       ELSE Observe("resolve", res, ty, IF m.st = "raise" THEN m.err ELSE NoError)
    /\ thr' = [thr EXCEPT ![t] = IF m.st = "hang"
                                 THEN [pc |-> "hung", res |-> res, ty |-> ty, mode |-> "-"]
                                 ELSE Idle]

\* the call goes on in a later step, at pc
Pending(t, res, ty, mode, pc) ==
    /\ thr' = [thr EXCEPT ![t] = [pc |-> pc, res |-> res, ty |-> ty, mode |-> mode]]
    /\ UNCHANGED <<container, singleton_instances, scoped_instances, insts,
                   cache_lock, rets, reused, seen>>

\* a singleton resolved through a scope is returned by the scope as well
ViaScope(m, res, ty) ==
    IF res # Root THEN ReturnResult(m, res, ty) ELSE m

\* provider.resolve(ty) or scope.resolve(ty), or the _async one, is called
\* by thread t
Call(t, res, ty, mode) ==
    /\ phase = "built"
    /\ thr[t].pc = "idle"
    /\ res # Root => scope_open[res]
    /\ LET reg == Lookup(container, ty)
           m == Machine(t, "run")
       IN IF reg # NoReg /\ reg.lifetime = Singleton /\ SingletonCached(m, ty) = NoInst
          THEN \* first cache miss: go for the lock
               Pending(t, res, ty, mode, "lock")
          ELSE IF res # Root /\ reg # NoReg /\ IsScopedLifetime(reg)
                  /\ ScopedCached(m, res, ty) = NoInst
          THEN \* scoped cache miss: go on to create
               Pending(t, res, ty, mode, "create")
          ELSE Finish(t, res, ty, Resolve(m, res, ty, 1, mode))
    /\ UNCHANGED <<ctor, hooks, todo, phase, error, scope_open>>

\* "with self._cache_lock:" is entered
AcquireLock(t) ==
    /\ thr[t].pc = "lock"
    /\ cache_lock = Free
    /\ cache_lock' = t
    /\ thr' = [thr EXCEPT ![t].pc = "locked"]
    /\ UNCHANGED <<ctor, hooks, todo, container, phase, error, singleton_instances,
                   insts, scope_open, scoped_instances, rets, reused, seen>>

\* the body of "with self._cache_lock:" has come to "inst = await inst"
\* of a factory that suspends
AtAwait(t) ==
    /\ thr[t].pc = "locked"
    /\ thr[t].mode = "async"
    /\ singleton_instances[thr[t].ty] = NoInst
    /\ Suspends(Lookup(container, thr[t].ty))

\* resolve_async is suspended inside "with self._cache_lock:": the task
\* gives up the event loop and keeps the lock.
Suspend(t) ==
    /\ AtAwait(t)
    /\ thr' = [thr EXCEPT ![t].pc = "suspended"]
    /\ UNCHANGED <<ctor, hooks, todo, container, phase, error, singleton_instances,
                   cache_lock, insts, scope_open, scoped_instances, rets, reused, seen>>

\* the awaited factory goes on: the rest of its body, the store, the end of
\* the with block and the return
Resume(t) ==
    /\ thr[t].pc = "suspended"
    /\ \E m \in {ViaScope(CreateSingleton(Machine(t, "run"), Lookup(container, thr[t].ty),
                                          1, "async"),
                          thr[t].res, thr[t].ty)} :
          Finish(t, thr[t].res, thr[t].ty, m)
    /\ UNCHANGED <<ctor, hooks, todo, phase, error, scope_open>>

\* a suspended task that keeps the lock when it is cancelled
CancelledKeepsLock(t) == cache_lock

\* CancelledError leaves "with self._cache_lock:": the lock is released
Cancelled(t) == Free

\* task.cancel() on the suspended task: CancelledError is raised at the
\* await, before "self._singleton_instances[_type] = instance".
Cancel(t) ==
    /\ thr[t].pc = "suspended"
    /\ cache_lock' = Cancelled(t)
    /\ thr' = [thr EXCEPT ![t] = Idle]
    /\ Observe("resolve", thr[t].res, thr[t].ty, CancelledError)
    /\ UNCHANGED <<ctor, hooks, todo, container, phase, error, singleton_instances,
                   insts, scope_open, scoped_instances, rets, reused>>

\* the body of "with self._cache_lock:" and the return
CreateLocked(t) ==
    /\ thr[t].pc = "locked"
    /\ ~AtAwait(t)
    /\ \E m \in {ViaScope(SecondCheck(Machine(t, "run"), Lookup(container, thr[t].ty), 1,
                                      thr[t].mode),
                          thr[t].res, thr[t].ty)} :
          Finish(t, thr[t].res, thr[t].ty, m)
    /\ UNCHANGED <<ctor, hooks, todo, phase, error, scope_open>>

\* ServiceScope.resolve after the scoped cache miss
CreateScoped(t) ==
    /\ thr[t].pc = "create"
    /\ Finish(t, thr[t].res, thr[t].ty,
              ScopeCreate(Machine(t, "run"), thr[t].res, Lookup(container, thr[t].ty), 1,
                          thr[t].mode))
    /\ UNCHANGED <<ctor, hooks, todo, phase, error, scope_open>>

\* ServiceProvider.create_scope
CreateScope(s) ==
    /\ phase = "built"
    /\ ~scope_open[s]
    /\ scope_open' = [scope_open EXCEPT ![s] = TRUE]
    /\ UNCHANGED <<ctor, hooks, todo, container, phase, error, singleton_instances,
                   cache_lock, insts, scoped_instances, thr, rets, reused, seen>>

\* the instances in the cache of scope s
CachedIn(s) == {scoped_instances[s][ty] : ty \in Types} \ {NoInst}

\* the exception a dispose method raises
HookError(impl) == [kind |-> "hook", id |-> impl, req |-> "-"]

\* an except clause that lets the exception go on
Reraised(e) == e

\* "except Exception as e: logger.warning(...)": the exception ends here
Caught(e) == NoError

\* The body of the loop of dispose for the heap object i, on d = [insts, err]:
\* an object that has a dispose method has it called inside try/except.
DisposeHook(d, i) ==
    IF hooks[d.insts[i].impl] = "none" THEN d
    ELSE [insts |-> [d.insts EXCEPT ![i].disposed = @ + 1],
          err |-> IF hooks[d.insts[i].impl] = "raises"
                  THEN Caught(HookError(d.insts[i].impl)) ELSE NoError]

\* the first of a set of objects in the order of the dict, the order in
\* which they were made
First(ids) == CHOOSE i \in ids : \A j \in ids : i <= j

RECURSIVE DisposeLoop(_, _)
\* "for instance in self._scoped_instances.values()": ids are the values
\* still to come; an exception leaves the loop.
DisposeLoop(d, ids) ==
    IF d.err # NoError \/ ids = {} THEN d
    ELSE DisposeLoop(DisposeHook(d, First(ids)), ids \ {First(ids)})

\* a dispose that calls the hooks and keeps the cache
DisposeDoneKeepsCache(s, d) ==
    /\ insts' = d.insts
    /\ UNCHANGED scoped_instances
    /\ Observe("dispose", s, "-", d.err)

\* "self._scoped_instances.clear()" after the loop, reached when no
\* exception left it; released counts the times an object was dropped from
\* a cache.
DisposeDone(s, d) ==
    /\ insts' = IF d.err # NoError THEN d.insts
                ELSE [i \in 1..Len(d.insts) |->
                        IF i \in CachedIn(s) THEN [d.insts[i] EXCEPT !.released = @ + 1]
                        ELSE d.insts[i]]
    /\ scoped_instances' = IF d.err # NoError THEN scoped_instances
                           ELSE [scoped_instances EXCEPT ![s] = [ty \in Types |-> NoInst]]
    /\ Observe("dispose", s, "-", d.err)

\* ServiceScope.dispose
Dispose(s) ==
    /\ scope_open[s]
    /\ DisposeDone(s, DisposeLoop([insts |-> insts, err |-> NoError], CachedIn(s)))
    /\ UNCHANGED <<ctor, hooks, todo, container, phase, error, singleton_instances,
                   cache_lock, scope_open, thr, rets, reused>>

\* a class with an "async def __aexit__", which returns ("aexit") or raises
\* ("aexit_raises"); such a class has a dispose method that returns as well
HasAExit(impl) == hooks[impl] \in {"aexit", "aexit_raises"}

\* "await inst.__aexit__(exc_type, exc_value, traceback)" for the heap
\* object i: the exception of the hook leaves the loop
AExitHook(e, i) ==
    IF hooks[insts[i].impl] = "aexit_raises" THEN HookError(insts[i].impl) ELSE e

RECURSIVE AExitLoop(_, _)
\* "for inst in self._scoped_instances.values(): if hasattr(inst,
\* '__aexit__'): await ..."; e is the exception so far
AExitLoop(e, ids) ==
    IF e # NoError \/ ids = {} THEN e
    ELSE AExitLoop(IF HasAExit(insts[First(ids)].impl) THEN AExitHook(e, First(ids)) ELSE e,
                   ids \ {First(ids)})

\* the exception of a hook leaves __aexit__ before "self.dispose()"
AExitRaised(s, e) ==
    /\ UNCHANGED <<insts, scoped_instances>>
    /\ Observe("aexit", s, "-", e)

\* ServiceScope.__aexit__, the end of "async with scope:", after a body that
\* completed or raised (the hooks get the exception of the body and
\* __aexit__ returns None, so the body's exception goes on afterwards):
\* the async hooks of the cached instances, then dispose.
AExit(s) ==
    /\ scope_open[s]
    /\ \E e \in {AExitLoop(NoError, CachedIn(s))} :
          IF e # NoError THEN AExitRaised(s, e)
          ELSE DisposeDone(s, DisposeLoop([insts |-> insts, err |-> NoError], CachedIn(s)))
    /\ UNCHANGED <<ctor, hooks, todo, container, phase, error, singleton_instances,
                   cache_lock, scope_open, thr, rets, reused>>

\* ------------------------------------------------------------------------
\* Programs
\* ------------------------------------------------------------------------

\* a registration call: add_singleton, add_transient, add_scoped
Add(ty, impl, lifetime, prebuilt, factory, fdeps) ==
    [dependency_type |-> ty, implementation_type |-> impl, lifetime |-> lifetime,
     prebuilt |-> prebuilt, factory |-> factory, fdeps |-> fdeps, late |-> FALSE]
\* a registration call the program makes after it has its provider
Late(c) == [c EXCEPT !.late = TRUE]
AddSingleton(ty) == Add(ty, "-", Singleton, FALSE, FALSE, <<>>)
AddSingletonAs(ty, impl) == Add(ty, impl, Singleton, FALSE, FALSE, <<>>)
AddSingletonFactory(ty, fdeps) == Add(ty, "-", Singleton, FALSE, TRUE, fdeps)
AddSingletonInstance(ty) == Add(ty, "-", Singleton, TRUE, FALSE, <<>>)
\* add_singleton(ty, instance=obj, factory=fn)
AddSingletonInstanceFactory(ty, fdeps) == Add(ty, "-", Singleton, TRUE, TRUE, fdeps)
AddTransient(ty) == Add(ty, "-", Transient, FALSE, FALSE, <<>>)
AddTransientFactory(ty, fdeps) == Add(ty, "-", Transient, FALSE, TRUE, fdeps)
AddScoped(ty) == Add(ty, "-", Scoped, FALSE, FALSE, <<>>)
AddScopedFactory(ty, fdeps) == Add(ty, "-", Scoped, FALSE, TRUE, fdeps)

\* class A: __init__(self); class B: __init__(self, a: A); class C: __init__(self, b: B)
Chain == [ty \in Types |-> IF ty = "B" THEN <<"A">> ELSE IF ty = "C" THEN <<"B">> ELSE <<>>]
\* three classes without constructor parameters
Plain == [ty \in Types |-> <<>>]

\* The programs of the concurrent specification: the classes and the
\* registration calls made before build_provider.
Programs ==
    { [ctor |-> Plain, todo |-> <<AddSingleton("A"), AddSingletonFactory("B", <<"A">>)>>],
      [ctor |-> Plain, todo |-> <<AddSingletonFactory("B", <<"A">>), AddSingleton("A")>>],
      [ctor |-> Plain, todo |-> <<AddSingleton("A"), AddSingletonAs("B", "A"),
                                  AddTransient("C")>>],
      [ctor |-> Chain, todo |-> <<AddSingleton("A"), AddScoped("B"), AddTransient("C")>>],
      [ctor |-> Chain, todo |-> <<AddSingletonInstance("A"), AddTransient("B"), AddScoped("C")>>],
      [ctor |-> Plain, todo |-> <<AddScopedFactory("A", <<>>), AddTransientFactory("B", <<"A">>),
                                  AddSingletonFactory("C", <<>>)>>] }

\* class -> "none": no class of the program has a dispose method
NoHooks == [ty \in Types |-> "none"]

InitState(p) ==
    /\ ctor = p.ctor
    /\ hooks = IF "hooks" \in DOMAIN p THEN p.hooks ELSE NoHooks
    /\ todo = p.todo
    /\ container = <<>>
    /\ phase = "register"
    /\ error = NoError
    /\ singleton_instances = [ty \in Types |-> NoInst]
    /\ cache_lock = Free
    /\ insts = <<>>
    /\ scope_open = [s \in Scopes |-> FALSE]
    /\ scoped_instances = [s \in Scopes |-> [ty \in Types |-> NoInst]]
    /\ thr = [t \in Threads |-> Idle]
    /\ rets = {}
    /\ reused = {}

Init == seen = NotObserved /\ \E p \in Programs : InitState(p)

Next ==
    \/ Register
    \/ Build
    \/ \E s \in Scopes : CreateScope(s)
    \/ \E s \in Scopes : Dispose(s)
    \/ \E t \in Threads, res \in {Root} \cup Scopes, ty \in Types, mode \in Modes :
          Call(t, res, ty, mode)
    \/ \E t \in Threads : AcquireLock(t)
    \/ \E t \in Threads : CreateLocked(t)
    \/ \E t \in Threads : CreateScoped(t)

\* Any number of threads call into one provider and its scopes.
Spec == Init /\ [][Next]_vars

\* One caller: every call returns before the next one is made.
NextSeq ==
    \/ Register
    \/ Build
    \/ \E s \in Scopes : CreateScope(s)
    \/ \E s \in Scopes : Dispose(s)
    \/ \E res \in {Root} \cup Scopes, ty \in Types, mode \in Modes : Call("t1", res, ty, mode)
    \/ AcquireLock("t1")
    \/ CreateLocked("t1")
    \/ CreateScoped("t1")

SpecSeq == Init /\ [][NextSeq]_vars


\* ------------------------------------------------------------------------
\* The registration graphs: every program that registers the first k classes
\* in turn (k = 0..3), each with any implementation class and any of the
\* ways to register, over every choice of constructors with at most one
\* parameter.  Classes can be renamed, so the order of the keys loses nothing.
\* ------------------------------------------------------------------------
ParamLists == {<<>>} \cup {<<ty>> : ty \in Types}

GraphCalls(ty) ==
    { Add(ty, impl, w[1], w[2], w[3], <<>>) :
        impl \in {"-"} \cup (Types \ {ty}),
        w \in { <<Singleton, FALSE, FALSE>>, <<Singleton, FALSE, TRUE>>,
                <<Singleton, TRUE, FALSE>>, <<Transient, FALSE, FALSE>>,
                <<Scoped, FALSE, FALSE>> } }

GraphPrograms ==
    {<<>>}
    \cup {<<a>> : a \in GraphCalls("A")}
    \cup {<<a, b>> : a \in GraphCalls("A"), b \in GraphCalls("B")}
    \cup {<<a, b, c>> : a \in GraphCalls("A"), b \in GraphCalls("B"), c \in GraphCalls("C")}

\* the classes whose constructor a program introspects
Introspected(calls) ==
    {IF calls[i].implementation_type = "-" THEN calls[i].dependency_type
     ELSE calls[i].implementation_type : i \in {j \in 1..Len(calls) : ~calls[j].factory}}

\* the constructor of a class no registration introspects is never read
InitGraph ==
    \E calls \in GraphPrograms, sigs \in [Types -> ParamLists] :
        /\ \A ty \in Types \ Introspected(calls) : sigs[ty] = <<>>
        /\ InitState([ctor |-> sigs, todo |-> calls])
        /\ seen = NotObserved

NextGraph == Register \/ Build

\* Registration and build_provider alone.
SpecGraph == InitGraph /\ [][NextGraph]_vars


\* ------------------------------------------------------------------------
\* One caller whose calls are watched, on the provider and one scope; the
\* provider is built, or made without build.  The programs have factories
\* that raise, classes with dispose methods, and dispose methods that raise.
\* ------------------------------------------------------------------------
ObsPrograms ==
    { [ctor |-> Plain, hooks |-> [ty \in Types |-> IF ty = "A" THEN "raises" ELSE "ok"],
       todo |-> <<AddScoped("A"), AddScoped("B")>>],
      [ctor |-> Chain, hooks |-> [ty \in Types |-> IF ty = "B" THEN "raises" ELSE "ok"],
       todo |-> <<AddSingleton("A"), AddScoped("B"), AddScoped("C")>>],
      [ctor |-> Chain, hooks |-> NoHooks, todo |-> <<AddSingleton("A"), AddScoped("B")>>],
      [ctor |-> Plain, hooks |-> NoHooks,
       todo |-> <<AddSingletonFactory("A", <<Boom>>), AddSingleton("B"), AddScoped("C")>>],
      [ctor |-> Plain, hooks |-> NoHooks,
       todo |-> <<AddSingleton("B"), AddSingletonFactory("A", <<"B", Boom>>),
                  AddTransientFactory("C", <<Boom>>)>>],
      [ctor |-> Plain, hooks |-> NoHooks,
       todo |-> <<AddTransient("C"), AddSingletonFactory("A", <<"C", Boom>>)>>],
      [ctor |-> Chain, hooks |-> [ty \in Types |-> IF ty = "B" THEN "init_raises" ELSE "none"],
       todo |-> <<AddTransient("A"), AddSingleton("B")>>],
      [ctor |-> Plain, hooks |-> NoHooks,
       todo |-> <<AddSingletonInstanceFactory("A", <<>>), AddSingleton("B")>>],
      [ctor |-> Chain, hooks |-> NoHooks,
       todo |-> <<AddScopedFactory("A", <<>>), AddSingletonInstance("B"),
                  AddTransientFactory("C", <<"A">>)>>] }

InitObs == seen = NothingSeen /\ \E p \in ObsPrograms : InitState(p)

NextObs ==
    \/ Register
    \/ Build
    \/ NewProvider
    \/ CreateScope("s1")
    \/ Dispose("s1")
    \/ \E res \in {Root, "s1"}, ty \in Types, mode \in Modes : Call("t1", res, ty, mode)
    \/ AcquireLock("t1")
    \/ CreateLocked("t1")
    \/ CreateScoped("t1")

SpecObs == InitObs /\ [][NextObs]_vars

\* ------------------------------------------------------------------------
\* One caller that leaves its scope through "async with": scoped classes
\* with dispose methods and with __aexit__ methods, one of which raises.
\* ------------------------------------------------------------------------
ExitPrograms ==
    { [ctor |-> Plain,
       hooks |-> [ty \in Types |-> IF ty = "A" THEN "aexit" ELSE "ok"],
       todo |-> <<AddScoped("A"), AddScoped("B"), AddTransient("C")>>],
      [ctor |-> Plain,
       hooks |-> [ty \in Types |-> IF ty = "B" THEN "aexit_raises"
                                   ELSE IF ty = "A" THEN "ok" ELSE "aexit"],
       todo |-> <<AddScoped("A"), AddScoped("B"), AddScoped("C")>>] }

InitExit == seen = NothingSeen /\ \E p \in ExitPrograms : InitState(p)

NextExit ==
    \/ Register
    \/ Build
    \/ CreateScope("s1")
    \/ AExit("s1")
    \/ Dispose("s1")
    \/ \E ty \in Types, mode \in Modes : Call("t1", "s1", ty, mode)
    \/ CreateScoped("t1")

SpecExit == InitExit /\ [][NextExit]_vars

\* ------------------------------------------------------------------------
\* One caller, whose calls are watched, and one registry from which the
\* program builds a provider, builds it again, and builds further providers.
\* ------------------------------------------------------------------------
TwoPrograms ==
    { [ctor |-> Chain, todo |-> <<AddSingleton("A"), AddSingleton("B")>>],
      [ctor |-> Plain, todo |-> <<AddSingleton("A"), AddSingletonFactory("B", <<"A">>)>>],
      [ctor |-> Chain, todo |-> <<AddSingletonInstance("A"), AddSingleton("B"),
                                  AddTransient("C")>>],
      [ctor |-> Plain, todo |-> <<AddSingletonFactory("A", <<Await>>), AddSingleton("B")>>],
      [ctor |-> Chain, todo |-> <<AddTransient("A"), AddSingleton("B"),
                                  AddSingletonAs("C", "B")>>] }

InitTwo == seen = NothingSeen /\ \E p \in TwoPrograms : InitState(p)

NextTwo ==
    \/ Register
    \/ Build
    \/ BuildAgain
    \/ SecondProvider
    \/ \E ty \in Types, mode \in Modes : Call("t1", Root, ty, mode)
    \/ AcquireLock("t1")
    \/ CreateLocked("t1")

SpecTwo == InitTwo /\ [][NextTwo]_vars

\* ------------------------------------------------------------------------
\* Tasks of one event loop on a provider made without build, with singleton
\* factories that suspend.  One task runs at a time: a task that has begun a
\* call runs until the call is over or suspended, and "with
\* self._cache_lock:" of threading.Lock waits without giving up the loop.
\* The host can cancel a suspended task.  A task that can go on does.
\* ------------------------------------------------------------------------
LoopPrograms ==
    { [ctor |-> Plain, todo |-> <<AddSingletonFactory("A", <<Await>>), AddTransient("B")>>],
      [ctor |-> Plain, todo |-> <<AddSingletonFactory("A", <<Await>>),
                                  AddSingletonFactory("B", <<Await>>), AddSingleton("C")>>] }

InitLoop == seen = NothingSeen /\ \E p \in LoopPrograms : InitState(p)

\* a call that begins now can make its object within the bound on the heap
HeapHasRoom == Cardinality(RunInsts(insts)) + Cardinality(Threads) <= MaxInst + 1

\* no other task is on the loop
LoopFree(t) == \A u \in Threads \ {t} : thr[u].pc \in {"idle", "suspended"}

\* the task goes on in its call
TaskStep(t) ==
    /\ LoopFree(t)
    /\ (AcquireLock(t) \/ Suspend(t) \/ CreateLocked(t) \/ Resume(t))

NextLoop ==
    \/ Register
    \/ NewProvider
    \/ \E t \in Threads, ty \in Types, mode \in Modes :
          LoopFree(t) /\ HeapHasRoom /\ Call(t, Root, ty, mode)
    \/ \E t \in Threads : TaskStep(t)
    \/ \E t \in Threads : LoopFree(t) /\ Cancel(t)

SpecLoop == InitLoop /\ [][NextLoop]_vars /\ \A t \in Threads : WF_vars(TaskStep(t))

\* ------------------------------------------------------------------------
\* Constructors with parameters that have no annotation: every program of
\* one or two registration calls for the classes A and B, each call inside
\* try/except or not, over the constructors of A and B with no parameter, an
\* annotated one, one without annotation, or both; then build_provider.
\* ------------------------------------------------------------------------
AnnLists == {<<>>, <<"C">>, <<Unannotated>>, <<"C", Unannotated>>}

AnnCalls ==
    {Add(ty, impl, w[1], w[2], w[3], <<>>) :
        ty \in {"A", "B"}, impl \in {"-", "A"},
        w \in { <<Singleton, FALSE, FALSE>>, <<Singleton, FALSE, TRUE>>,
                <<Singleton, TRUE, FALSE>>, <<Transient, FALSE, FALSE>>,
                <<Scoped, FALSE, TRUE>> } }

AnnPrograms == {<<a>> : a \in AnnCalls} \cup {<<a, b>> : a \in AnnCalls, b \in AnnCalls}

InitAnn ==
    /\ seen = NotObserved
    /\ \E calls \in AnnPrograms, sigs \in [Types -> AnnLists] :
          /\ sigs["C"] = <<>>
          /\ InitState([ctor |-> sigs, todo |-> calls])

NextAnn == Register \/ TryRegister \/ Build

SpecAnn == InitAnn /\ [][NextAnn]_vars

\* ------------------------------------------------------------------------
\* Registering again and registering late: every program of up to three
\* calls that register the classes A and B as Singleton, Transient or
\* Scoped, or A with the implementation B, the last call made before or
\* after the provider is built; then one caller on the provider and a scope.
\* ------------------------------------------------------------------------
RegCalls ==
    {Add(ty, "-", lifetime, FALSE, FALSE, <<>>) :
        ty \in {"A", "B"}, lifetime \in {Singleton, Transient, Scoped}}
    \cup {AddSingletonAs("A", "B"), AddSingletonInstance("B")}

RegPrograms ==
    {<<a>> : a \in RegCalls}
    \cup {<<a, b>> : a \in RegCalls, b \in RegCalls \cup {Late(c) : c \in RegCalls}}
    \cup {<<a, b, c>> : a \in RegCalls, b \in RegCalls,
                        c \in RegCalls \cup {Late(x) : x \in RegCalls}}

InitReg ==
    /\ seen = NotObserved
    /\ \E calls \in RegPrograms : InitState([ctor |-> Plain, todo |-> calls])

NextReg ==
    \/ Register
    \/ Build
    \/ CreateScope("s1")
    \/ \E res \in {Root, "s1"}, ty \in Types, mode \in Modes : Call("t1", res, ty, mode)
    \/ AcquireLock("t1")
    \/ CreateLocked("t1")
    \/ CreateScoped("t1")

SpecReg == InitReg /\ [][NextReg]_vars

\* the programs among these that make every registration before they build
InitRegEarly ==
    /\ seen = NotObserved
    /\ \E calls \in RegPrograms :
          /\ \A i \in 1..Len(calls) : ~calls[i].late
          /\ InitState([ctor |-> Plain, todo |-> calls])

SpecRegEarly == InitRegEarly /\ [][NextReg]_vars

\* ------------------------------------------------------------------------
\* Properties
\* ------------------------------------------------------------------------

HasLifetime(ty, lifetime) == Lookup(container, ty).lifetime = lifetime

\* the objects the container constructed for the registration of ty
Constructed(ty) == {i \in 1..Len(insts) : insts[i].id = ty /\ insts[i].phase # "pre"}

\* the objects constructed for ty with scope s as resolver that no dispose
\* has released
LiveIn(s, ty) ==
    {i \in 1..Len(insts) : insts[i].id = ty /\ insts[i].by = s /\ insts[i].released = 0}

\* build has run (and returned, raised or hung)
BuildRan == phase # "register" /\ error.kind # "missing_annotation"

\* The constructor-dependency graph of a registry: an edge from a registered
\* type to every type its registration's constructor parameters name.
Registered(regs) == {regs[i].dependency_type : i \in 1..Len(regs)}

ParamsOf(regs, ty) ==
    {Lookup(regs, ty).constructor_params[i] :
        i \in 1..Len(Lookup(regs, ty).constructor_params)}

RECURSIVE ReachFrom(_, _, _)
ReachFrom(regs, from, n) ==
    IF n = 0 THEN from
    ELSE ReachFrom(regs,
                   from \cup (UNION {ParamsOf(regs, ty) : ty \in from} \cap Registered(regs)),
                   n - 1)

\* the registrations reachable from the Singleton registrations
Reachable(regs) ==
    ReachFrom(regs, {ty \in Registered(regs) : Lookup(regs, ty).lifetime = Singleton},
              Cardinality(Types))

\* the reachable registrations that lie on a cycle
OnCycle(regs) ==
    {ty \in Reachable(regs) :
        ty \in ReachFrom(regs, ParamsOf(regs, ty) \cap Registered(regs), Cardinality(Types))}

\* <<requiring registration, missing type>>
Missing(regs) ==
    {<<ty, p>> \in Reachable(regs) \X Types : p \in ParamsOf(regs, ty) \ Registered(regs)}

\* the graph validator raised the error of the failed build
ValidatorError ==
    /\ phase = "failed"
    /\ \/ error.kind = "cyclic"
       \/ error.kind = "unregistered" /\ error.req # "-"

\* C1: at most one instance is ever constructed for a Singleton identity,
\* counting build and every resolve, also those made from inside a factory
\* while build runs.
C1_AtMostOneConstruction ==
    \A ty \in Types : HasLifetime(ty, Singleton) => Cardinality(Constructed(ty)) <= 1

\* C2: all resolve calls for one Singleton identity return the same instance.
C2_SameSingletonInstance ==
    \A r1, r2 \in rets :
        (r1[2] = r2[2] /\ HasLifetime(r1[2], Singleton)) => r1[3] = r2[3]

\* C3: concurrent resolves of one Scoped identity on one scope construct one
\* instance: the scope never has two unreleased instances of the identity.
C3_OneInstancePerScope ==
    \A s \in Scopes, ty \in Types :
        HasLifetime(ty, Scoped) => Cardinality(LiveIn(s, ty)) <= 1

C5_ScopesIsolated ==
    /\ \A r1, r2 \in rets :
          (HasLifetime(r1[2], Scoped) /\ r1[3] = r2[3]
             /\ r1[1] \in Scopes /\ r2[1] \in Scopes) => r1[1] = r2[1]
    /\ \A s1, s2 \in Scopes, ty \in Types :
          (s1 # s2 /\ scoped_instances[s1][ty] # NoInst)
              => scoped_instances[s1][ty] # scoped_instances[s2][ty]

\* C5 happens: both scopes have resolved the same Scoped identity, one of
\* them again after a dispose.
C5_Witness ==
    \E ty \in Types, i, j, k \in 1..Len(insts) :
        /\ HasLifetime(ty, Scoped)
        /\ <<"s1", ty, i>> \in rets /\ <<"s2", ty, j>> \in rets
        /\ <<"s1", ty, k>> \in rets /\ k # i /\ insts[i].released = 1

\* C6: every resolve of a Transient identity, on the provider or on a
\* scope, returns an instance no earlier resolve has returned.
C6_TransientFresh ==
    /\ reused = {}
    /\ \A r1, r2 \in rets :
          (HasLifetime(r1[2], Transient) /\ r1[3] = r2[3]) => r1 = r2

\* C6 happens: the provider has resolved a Transient identity, and a scope
\* has resolved it twice.
C6_Witness ==
    \E ty \in Types, s \in Scopes :
        /\ HasLifetime(ty, Transient)
        /\ Cardinality({r \in rets : r[1] = Root /\ r[2] = ty}) >= 1
        /\ Cardinality({r \in rets : r[1] = s /\ r[2] = ty}) >= 2

\* C7: after build, the Singleton a Singleton factory resolved and embedded
\* is the instance resolve returns for that identity, and every resolve of
\* the factory-built Singleton returns the same object.
C7_EmbeddedIsResolved ==
    phase = "built" =>
        \A ty \in Types :
            (HasLifetime(ty, Singleton) /\ Lookup(container, ty).factory
               /\ singleton_instances[ty] # NoInst) =>
                /\ \A i \in 1..Len(Lookup(container, ty).fdeps) :
                      HasLifetime(Lookup(container, ty).fdeps[i], Singleton) =>
                          insts[singleton_instances[ty]].args[i]
                              = singleton_instances[Lookup(container, ty).fdeps[i]]
                /\ \A r \in rets : r[2] = ty => r[3] = singleton_instances[ty]

\* C8: when the graph reachable from the Singleton registrations has a cycle
\* (and misses no registration), build raises the cyclic-dependency error and
\* names the implementation of a registration on a cycle.
C8_CycleRaises ==
    (BuildRan /\ OnCycle(container) # {} /\ Missing(container) = {}) =>
        /\ phase = "failed"
        /\ error.kind = "cyclic"
        /\ \E ty \in OnCycle(container) :
              error.id = Lookup(container, ty).implementation_type

\* C9: when a registration reachable from the Singleton registrations
\* requires a type with no registration (and the graph has no cycle), build
\* raises the unregistered-dependency error naming the missing type and the
\* registration that requires it.
C9_MissingRaises ==
    (BuildRan /\ Missing(container) # {} /\ OnCycle(container) = {}) =>
        /\ phase = "failed"
        /\ error.kind = "unregistered"
        /\ \E p \in Missing(container) :
              /\ error.id = p[2]
              /\ error.req = Lookup(container, p[1]).implementation_type

\* C10: when build fails with an error of the graph validator, build has
\* constructed nothing, no resolve has run and the singleton cache is empty.
C10_ValidationBeforeConstruction ==
    ValidatorError =>
        /\ \A i \in 1..Len(insts) : insts[i].phase = "pre"
        /\ \A ty \in Types : singleton_instances[ty] = NoInst
        /\ \A i \in 1..Len(container) :
              container[i].instance # NoInst => insts[container[i].instance].phase = "pre"
        /\ rets = {}

\* C10 happens: build failed on a cycle although the first registration is
\* a Singleton without parameters, which the sort had finished by then.
C10_Witness ==
    /\ ValidatorError
    /\ error.kind = "cyclic"
    /\ Len(container) >= 2
    /\ container[1].lifetime = Singleton
    /\ container[1].constructor_params = <<>>
    /\ container[1].instance = NoInst

\* the Singleton registrations the program gave no instance: their slot is
\* empty or holds an object the container made
Unsupplied(regs) ==
    {ty \in Registered(regs) :
        /\ Lookup(regs, ty).lifetime = Singleton
        /\ Lookup(regs, ty).instance # NoInst => insts[Lookup(regs, ty).instance].phase # "pre"}

\* C11: once build_provider has returned, every Singleton registration
\* without a pre-supplied instance is in the singleton cache with an object
\* made during build, and no resolve constructs an object for a Singleton
\* identity afterwards.
C11_SingletonsBuiltEagerly ==
    phase = "built" =>
        /\ \A ty \in Unsupplied(container) :
              /\ singleton_instances[ty] # NoInst
              /\ insts[singleton_instances[ty]].phase = "build"
        /\ \A i \in 1..Len(insts) :
              insts[i].phase = "run" => ~HasLifetime(insts[i].id, Singleton)

\* C12: a resolve or resolve_async of a Scoped identity on the provider came
\* back with the scope-required error, and the step of such a call
\* constructs nothing and leaves the singleton cache as it was.
C12_ScopedNeedsScope ==
    /\ [](seen.op = "resolve" /\ seen.res = Root /\ HasLifetime(seen.ty, Scoped)
            => seen.out = ScopeRequired(seen.ty))
    /\ [][\A t \in Threads, ty \in Types, mode \in Modes :
            (HasLifetime(ty, Scoped) /\ Call(t, Root, ty, mode))
                => UNCHANGED <<insts, singleton_instances, rets>>]_vars

\* C12 happens: the caller has twice in a row resolved a Scoped identity on
\* the provider.
C12_Witness ==
    /\ seen.op = "resolve" /\ seen.res = Root /\ HasLifetime(seen.ty, Scoped)
    /\ seen.n >= 2

\* C13: a resolve or resolve_async of an identity without registration, on
\* the provider or on a scope, came back with the unregistered-dependency
\* error that names the identity and no requester; no resolve ever returned
\* for such an identity; and the step of such a call constructs nothing and
\* leaves the singleton cache and the scoped caches as they were.
C13_UnregisteredRaises ==
    /\ [](seen.op = "resolve" /\ Lookup(container, seen.ty) = NoReg
            => seen.out = UnregisteredDependency(seen.ty, "-"))
    /\ [](\A r \in rets : Lookup(container, r[2]) # NoReg)
    /\ [][\A t \in Threads, res \in {Root} \cup Scopes, ty \in Types, mode \in Modes :
            (Lookup(container, ty) = NoReg /\ Call(t, res, ty, mode))
                => UNCHANGED <<insts, singleton_instances, scoped_instances, rets>>]_vars

\* C13 happens: the caller has resolved an identity without registration on
\* a scope twice in a row, while the provider and the scope hold instances.
C13_Witness ==
    /\ seen.op = "resolve" /\ seen.res \in Scopes /\ seen.n >= 2
    /\ Lookup(container, seen.ty) = NoReg
    /\ \E ty \in Types : singleton_instances[ty] # NoInst
    /\ \E ty \in Types : scoped_instances[seen.res][ty] # NoInst

\* the objects whose class has a dispose method
Disposable == {i \in 1..Len(insts) : hooks[insts[i].impl] # "none"}

C15_DisposeCompletes ==
    [][\A s \in Scopes :
        Dispose(s) =>
            /\ \A ty \in Types : scoped_instances'[s][ty] = NoInst
            /\ \A i \in CachedIn(s) \cap Disposable :
                  insts'[i].disposed = insts[i].disposed + 1
            /\ seen'.op = "dispose" /\ seen'.out = NoError]_vars

\* C15 happens: a dispose has dropped an object whose dispose method raises
\* together with a later-made object that holds it, and has called the
\* dispose methods of both.
C15_Witness ==
    /\ seen.op = "dispose"
    /\ \E i, j \in Disposable :
          /\ i < j /\ insts[i].by = seen.res /\ insts[j].by = seen.res
          /\ insts[j].args = <<i>>
          /\ hooks[insts[i].impl] = "raises"
          /\ insts[i].disposed = 1 /\ insts[j].disposed = 1

\* What the caller gets from resolve(ty) or resolve_async(ty) on res in the
\* current state: whether the call returns, the exception it raises, the
\* class of the object it returns and whether the call makes that object.
Outcome(res, ty, mode) ==
    [st    |-> Resolve(Machine("t1", "run"), res, ty, 1, mode).st,
     err   |-> Resolve(Machine("t1", "run"), res, ty, 1, mode).err,
     impl  |-> IF Resolve(Machine("t1", "run"), res, ty, 1, mode).st # "ok" THEN "-"
               ELSE Resolve(Machine("t1", "run"), res, ty, 1, mode).insts[
                        Resolve(Machine("t1", "run"), res, ty, 1, mode).ret].impl,
     fresh |-> Resolve(Machine("t1", "run"), res, ty, 1, mode).ret > Len(insts)]

\* C16: a registration made on the registry after the provider was built
\* changes nothing for the provider: for every identity, resolve on the
\* provider and on its scopes has the same outcome after the registration
\* as before it.
C16_LateRegistrationIgnored ==
    [][(phase = "built" /\ container' # container) =>
          \A res \in {Root} \cup Scopes, ty \in Types, mode \in Modes :
              Outcome(res, ty, mode)' = Outcome(res, ty, mode)]_vars

\* the descriptors a registry holds for the identity ty
Descriptors(regs, ty) == {i \in 1..Len(regs) : regs[i].dependency_type = ty}

\* C17: a registration replaces the descriptor of its identity.  After
\* every registration call the registry holds one descriptor for the
\* identity of the call, with the lifetime, implementation, instance and
\* factory of that call, and the descriptors of the other identities are as
\* before; and a provider built after the registrations resolves by the
\* last descriptors: what a resolve returns is of the implementation class
\* of the identity's descriptor, is the descriptor's pre-built instance when
\* it has one, and is not of a Scoped identity when the provider returns it.
C17_LastRegistrationWins ==
    /\ [][todo' # todo =>
            /\ \A ty \in Types : Cardinality(Descriptors(container', ty)) <= 1
            /\ Lookup(container', Head(todo).dependency_type).lifetime = Head(todo).lifetime
            /\ Lookup(container', Head(todo).dependency_type).implementation_type
                  = IF Head(todo).implementation_type = "-" THEN Head(todo).dependency_type
                    ELSE Head(todo).implementation_type
            /\ Lookup(container', Head(todo).dependency_type).factory = Head(todo).factory
            /\ Lookup(container', Head(todo).dependency_type).instance
                  = IF Head(todo).prebuilt THEN Len(insts') ELSE NoInst
            /\ Head(todo).prebuilt => Len(insts') = Len(insts) + 1
            /\ \A ty \in Types \ {Head(todo).dependency_type} :
                  Lookup(container', ty) = Lookup(container, ty)]_vars
    /\ [](\A r \in rets :
            /\ Lookup(container, r[2]) # NoReg
            /\ insts[r[3]].impl = Lookup(container, r[2]).implementation_type
            /\ insts[r[3]].id = r[2]
            /\ r[1] = Root => ~HasLifetime(r[2], Scoped)
            /\ (\E i \in 1..Len(insts) : insts[i].phase = "pre"
                    /\ Lookup(container, r[2]).instance = i) =>
                   r[3] = Lookup(container, r[2]).instance)

\* C17 happens: an identity registered with a pre-built instance was
\* registered again without it, and the provider built afterwards has
\* resolved the identity.
C17_Witness ==
    /\ phase = "built"
    /\ \E i \in 1..Len(insts) :
          /\ insts[i].phase = "pre"
          /\ Lookup(container, insts[i].id).instance # i
          /\ \E r \in rets : r[2] = insts[i].id /\ r[3] # i

\* the identities a creation of the singleton reg resolves before it builds
\* or raises
Wanted(reg) ==
    IF reg.factory THEN SelectSeq(reg.fdeps, LAMBDA x : x # Boom)
    ELSE reg.constructor_params

\* the exceptions the factories and constructors of the programs raise
UserErrors == {FactoryError, InitError}

\* C19: a singleton whose creation raises.  When the factory or the
\* constructor of a singleton that is not in the cache raises during a
\* resolve, the caller gets that exception, the lock is free and the cache
\* has no entry for the identity once the call is over (and as long as no
\* other call is under way), and the call has run
\* the creation once: it has made one object for every Transient identity
\* the creation resolves and at most one for every other.  This holds for
\* every such call, a call that follows a failed one included.
C19_FailedCreationLeavesNoTrace ==
    /\ []((seen.op = "resolve" /\ seen.out \in UserErrors
              /\ HasLifetime(seen.ty, Singleton)
              /\ \A t \in Threads : thr[t].pc = "idle") =>
                 /\ cache_lock = Free
                 /\ singleton_instances[seen.ty] = NoInst)
    /\ [][\A t \in Threads :
            (thr[t].pc = "locked" /\ thr'[t].pc = "idle" /\ seen'.out # NoError) =>
               /\ seen'.op = "resolve" /\ seen'.ty = thr[t].ty /\ seen'.res = thr[t].res
               /\ seen'.out = IF Lookup(container, thr[t].ty).factory THEN FactoryError
                              ELSE InitError
               /\ cache_lock' = Free
               /\ singleton_instances'[thr[t].ty] = NoInst
               /\ Len(insts') - Len(insts) <= Len(Wanted(Lookup(container, thr[t].ty)))
               /\ Len(insts') - Len(insts) >=
                     Cardinality({i \in 1..Len(Wanted(Lookup(container, thr[t].ty))) :
                        HasLifetime(Wanted(Lookup(container, thr[t].ty))[i], Transient)})]_vars

\* C19 happens: two resolve calls in a row of a singleton whose factory
\* resolves a Transient identity and raises have raised, and each has made
\* an object of the Transient identity.
C19_Witness ==
    /\ seen.op = "resolve" /\ seen.out = FactoryError /\ seen.n >= 2
    /\ HasLifetime(seen.ty, Singleton)
    /\ singleton_instances[seen.ty] = NoInst
    /\ cache_lock = Free
    /\ \E i, j \in RunInsts(insts) : i # j /\ insts[i].id = insts[j].id

\* C18: every caller returns.  A task that has called resolve_async for a
\* singleton that is not in the cache, and waits for the lock, holds it or
\* is suspended in its factory, comes to the end of its call.
C18_EveryCallerReturns ==
    \A t \in Threads :
        (thr[t].mode = "async" /\ thr[t].pc \in {"lock", "locked", "suspended"})
            ~> (thr[t].pc = "idle")

\* C20: a cancelled creation is made again.  Cancelling a task suspended in
\* the factory of a singleton leaves the lock free, the cache without the
\* identity and the heap as it was; and the call of resolve or resolve_async
\* for the identity that comes to its end next returns, and has made and
\* cached an object of the implementation class.
C20_CancelledCreationRetried ==
    /\ [][\A t \in Threads :
            Cancel(t) =>
               /\ cache_lock' = Free
               /\ singleton_instances'[thr[t].ty] = NoInst
               /\ insts' = insts]_vars
    /\ [][\A t \in Threads :
            (seen.op = "resolve" /\ seen.out = CancelledError /\ seen.ty = thr[t].ty
                /\ thr[t].pc \in {"locked", "suspended"} /\ thr'[t].pc = "idle"
                /\ ~Cancel(t)) =>
               /\ seen'.out = NoError
               /\ Len(insts') > Len(insts)
               /\ singleton_instances'[thr[t].ty] > Len(insts)
               /\ insts'[singleton_instances'[thr[t].ty]].impl
                     = Lookup(container, thr[t].ty).implementation_type]_vars

\* the objects the program handed to add_singleton as instance
PreBuilt == {i \in 1..Len(insts) : insts[i].phase = "pre"}

\* C21: a pre-built instance is what resolve returns.  For a Singleton
\* registered with an instance and no factory, the descriptor keeps the
\* instance, no object is constructed for the identity, by build or later,
\* and every resolve and resolve_async that returns, on the provider or on a
\* scope, returns that instance.
C21_PreBuiltInstanceReturned ==
    \A i \in PreBuilt :
        ~Lookup(container, insts[i].id).factory =>
            /\ Lookup(container, insts[i].id).lifetime = Singleton
            /\ Lookup(container, insts[i].id).instance = i
            /\ Constructed(insts[i].id) = {}
            /\ \A r \in rets : r[2] = insts[i].id => r[3] = i

\* C21 happens: the provider and a scope have both returned the pre-built
\* instance of a Singleton registered without factory.
C21_Witness ==
    \E i \in PreBuilt :
        /\ ~Lookup(container, insts[i].id).factory
        /\ phase = "built"
        /\ \E s \in Scopes : <<s, insts[i].id, i>> \in rets
        /\ <<Root, insts[i].id, i>> \in rets

\* C22: the instance comes before the factory.  For a Singleton registered
\* with an instance, with a factory or without one, nothing is constructed
\* for the identity (the factory is not called, by build or by resolve) and
\* every resolve that returns for it returns the instance.
C22_InstanceBeforeFactory ==
    \A i \in PreBuilt :
        Lookup(container, insts[i].id).instance = i =>
            /\ Constructed(insts[i].id) = {}
            /\ \A r \in rets : r[2] = insts[i].id => r[3] = i

\* the class a registration call introspects
ImplOf(c) == IF c.implementation_type = "-" THEN c.dependency_type ELSE c.implementation_type

\* C23: a parameter without annotation fails the registration.  A
\* registration call raises exactly when it has no factory and the
\* constructor of its implementation class has a parameter without
\* annotation; the exception is the missing-annotation error, the registry is
\* as it was before the call, and the call resolves and constructs nothing:
\* the caches and the log of returns are unchanged and the heap grows by
\* the instance the program made for the call, if any.
C23_MissingAnnotationRejected ==
    [][todo' # todo =>
        /\ rets' = rets
        /\ singleton_instances' = singleton_instances
        /\ scoped_instances' = scoped_instances
        /\ Len(insts') = Len(insts) + IF Head(todo).prebuilt THEN 1 ELSE 0
        /\ \A i \in 1..Len(insts') : i > Len(insts) => insts'[i].phase = "pre"
        /\ IF ~Head(todo).factory /\ HasUnannotated(ctor[ImplOf(Head(todo))])
           THEN /\ error' = MissingDependencyAnnotation(ImplOf(Head(todo)))
                /\ container' = container
           ELSE /\ error' = error
                /\ Lookup(container', Head(todo).dependency_type) # NoReg]_vars

\* C23 happens: the program registered an identity, a second registration
\* of the identity raised the missing-annotation error, and the registry
\* still holds the first descriptor.
C23_Witness ==
    /\ todo = <<>>
    /\ phase = "register"
    /\ error = MissingDependencyAnnotation("A")
    /\ Lookup(container, "A") # NoReg
    /\ Lookup(container, "A").factory

\* C24: a scope hands out the provider's singletons and keeps none.  What a
\* scope returns for a Singleton identity is the instance in the provider's
\* cache, which the provider's resolve returns as well, and the cache of a
\* scope has entries for Scoped identities only, none of them an object a
\* Singleton identity was resolved to.
C24_ScopeDelegatesSingletons ==
    /\ \A r \in rets :
          (r[1] \in Scopes /\ HasLifetime(r[2], Singleton)) =>
              /\ r[3] = singleton_instances[r[2]]
              /\ <<Root, r[2], r[3]>> \in rets
    /\ \A s \in Scopes, ty \in Types :
          scoped_instances[s][ty] # NoInst =>
              /\ HasLifetime(ty, Scoped)
              /\ \A x \in Types :
                    HasLifetime(x, Singleton) => scoped_instances[s][ty] # singleton_instances[x]

\* C24 happens: two scopes and the provider have returned the same object
\* for a Singleton identity, and one of the scopes has a Scoped instance in
\* its cache.
C24_Witness ==
    \E ty \in Types, i \in 1..Len(insts) :
        /\ HasLifetime(ty, Singleton)
        /\ \A res \in {Root} \cup Scopes : <<res, ty, i>> \in rets
        /\ \E s \in Scopes, x \in Types : scoped_instances[s][x] # NoInst

\* the objects made by the factory of their registration
FactoryMade == {i \in 1..Len(insts) : insts[i].phase # "pre"
                                       /\ Lookup(container, insts[i].id).factory}

\* C25: the resolver a factory is given.  The factory of a Scoped
\* registration is called with a scope, the factory of a Singleton
\* registration with the provider, and the factory of a Transient
\* registration with the resolver whose resolve returns its object.
C25_FactoryGetsItsResolver ==
    /\ \A i \in FactoryMade :
          /\ HasLifetime(insts[i].id, Scoped) => insts[i].by \in Scopes
          /\ HasLifetime(insts[i].id, Singleton) => insts[i].by = Root
    /\ \A r \in rets :
          (r[3] \in FactoryMade /\ ~HasLifetime(r[2], Singleton)) => insts[r[3]].by = r[1]

\* C26: the transients of a scope share its Scoped instance.  An object a
\* scope returned for a Transient identity that has a Scoped constructor
\* parameter holds, for that parameter, the instance in the scope's cache,
\* the one the scope's resolve returns, as long as no dispose has released
\* the instance: all the transients of the scope hold the same one.
C26_TransientSharesScoped ==
    \A r \in rets :
        (r[1] \in Scopes /\ HasLifetime(r[2], Transient) /\ ~Lookup(container, r[2]).factory) =>
            \A k \in 1..Len(insts[r[3]].args) :
                (HasLifetime(Lookup(container, r[2]).constructor_params[k], Scoped)
                    /\ insts[insts[r[3]].args[k]].released = 0) =>
                   insts[r[3]].args[k]
                     = scoped_instances[r[1]][Lookup(container, r[2]).constructor_params[k]]

C28_BuildSkipsTransientAndScoped ==
    phase = "built" =>
        \A i \in 1..Len(insts) :
            insts[i].phase = "build" => HasLifetime(insts[i].id, Singleton)

\* sorted_deps of build: _topological_sort of the Singleton registrations
SortedDeps == TopologicalSort(container, SelectSeq(container, IsSingleton))

\* the places of ty in the order
PlacesOf(order, ty) == {i \in 1..Len(order) : order[i] = ty}

\* C29: for a registry whose reachable graph has no cycle and no missing
\* type, _topological_sort returns an order that holds every Singleton
\* registration exactly once and every constructor dependency of a
\* registration before that registration; and after build every object build
\* made by a constructor holds, for each Singleton parameter, the object in
\* the singleton cache.
C29_DependenciesFirst ==
    (OnCycle(container) = {} /\ Missing(container) = {}) =>
        /\ SortedDeps.err = NoError
        /\ \A ty \in Registered(container) :
              HasLifetime(ty, Singleton) => Cardinality(PlacesOf(SortedDeps.order, ty)) = 1
        /\ \A i \in 1..Len(SortedDeps.order) :
              \A p \in ParamsOf(container, SortedDeps.order[i]) :
                  \E j \in 1..(i - 1) : SortedDeps.order[j] = p
        /\ phase = "built" =>
              \A i \in 1..Len(insts) :
                  (insts[i].phase = "build" /\ ~Lookup(container, insts[i].id).factory) =>
                      \A k \in 1..Len(insts[i].args) :
                          LET p == Lookup(container, insts[i].id).constructor_params[k]
                          IN HasLifetime(p, Singleton) =>
                                insts[i].args[k] = singleton_instances[p]

\* the constructor parameters build has to resolve for ty: none for a
\* Singleton that came with its instance
NeededParams(regs, ty) ==
    IF ty \in Registered(regs) \ Unsupplied(regs) /\ Lookup(regs, ty).lifetime = Singleton
    THEN {} ELSE ParamsOf(regs, ty)

RECURSIVE NeededFrom(_, _, _)
NeededFrom(regs, from, n) ==
    IF n = 0 THEN from
    ELSE NeededFrom(regs,
                    from \cup (UNION {NeededParams(regs, ty) : ty \in from}
                                  \cap Registered(regs)),
                    n - 1)

\* the registrations build has to construct, directly or for a constructor
Needed(regs) == NeededFrom(regs, Unsupplied(regs), Cardinality(Types))

\* C30: a Singleton registered with a pre-built instance is no input of the
\* graph validator.  When the registrations reachable from the Singletons
\* without instance, not going through the constructor of a pre-built one,
\* have no cycle and no unregistered parameter, build does not fail with an
\* error of the validator.
C30_PreBuiltNotValidated ==
    (/\ BuildRan
     /\ \A ty \in Needed(container) :
           /\ NeededParams(container, ty) \subseteq Registered(container)
           /\ ty \notin NeededFrom(container, NeededParams(container, ty),
                                    Cardinality(Types)))
        => ~ValidatorError

\* C31: a descriptor in the registry is immutable but for the instance slot
\* of a Singleton.  No step other than a registration call changes a field
\* of a registration; the instance slot alone may change, only on a
\* Singleton registration and only from empty to populated.
C31_DescriptorsImmutable ==
    [][todo' = todo =>
          /\ Len(container') = Len(container)
          /\ \A i \in 1..Len(container) :
                /\ [container'[i] EXCEPT !.instance = NoInst]
                      = [container[i] EXCEPT !.instance = NoInst]
                /\ container'[i].instance # container[i].instance =>
                      /\ container[i].lifetime = Singleton
                      /\ container[i].instance = NoInst]_vars

\* C32: a build that fails leaves the registry as it was.  The step of a
\* build_provider that raises changes no Singleton registration: no instance
\* slot is populated by the failed build, so that a later build would
\* construct every Singleton again.
C32_FailedBuildLeavesRegistry ==
    [][(phase = "register" /\ phase' = "failed") =>
          /\ Len(container') = Len(container)
          /\ \A i \in 1..Len(container) :
                container[i].lifetime = Singleton => container'[i] = container[i]]_vars

\* C33: transient instances are never cached.  The singleton cache of the
\* provider has entries for identities of Singleton lifetime only, and
\* neither it nor the cache of a scope has an entry for a Transient identity.
C33_TransientNeverCached ==
    \A ty \in Types :
        /\ singleton_instances[ty] # NoInst => HasLifetime(ty, Singleton)
        /\ HasLifetime(ty, Transient) =>
              \A s \in Scopes : scoped_instances[s][ty] = NoInst

\* C34: leaving a scope through its async context manager ends with the
\* scoped cache empty and the dispose method of every cached instance that
\* has one called once more, also when the __aexit__ of a cached instance
\* raises.
C34_AsyncExitCleansUp ==
    [][AExit("s1") =>
          /\ \A ty \in Types : scoped_instances'["s1"][ty] = NoInst
          /\ \A i \in CachedIn("s1") :
                hooks[insts[i].impl] # "none" =>
                    insts'[i].disposed = insts[i].disposed + 1]_vars

\* C35: every resolve of a Singleton identity on the provider comes to an
\* end.  No caller, and no build, ever waits for the cache lock of the
\* provider while holding it itself.
C35_ResolveTerminates ==
    /\ phase # "hung"
    /\ \A t \in Threads : thr[t].pc # "hung"

\* C36: singleton state is per provider.  A further provider built from the
\* same registry has, when its build returns, every Singleton identity the
\* program gave no instance in its own cache, with an object made during
\* its own build and different from the one of the provider before it.
C36_SingletonsPerProvider ==
    [][(SecondProvider /\ phase' = "built") =>
          \A ty \in Types :
              (HasLifetime(ty, Singleton) /\ ty \in Unsupplied(container)) =>
                  /\ singleton_instances'[ty] # NoInst
                  /\ singleton_instances'[ty] # singleton_instances[ty]
                  /\ insts'[singleton_instances'[ty]].phase = "build2"]_vars

\* the registered identities that lie on a cycle of constructor parameters
Cyclic(regs) ==
    {ty \in Registered(regs) :
        ty \in ReachFrom(regs, ParamsOf(regs, ty) \cap Registered(regs), Cardinality(Types))}

\* C37: cycle detection is sound.  When build has raised the
\* cyclic-dependency error, the graph of constructor parameters over the
\* registered identities has a cycle, also when registrations share an
\* implementation type.
C37_CycleErrorIsSound ==
    (phase = "failed" /\ error.kind = "cyclic") => Cyclic(container) # {}

\* C38: a scope stays usable after dispose.  No object a dispose has dropped
\* or disposed of is in a scoped cache; a resolve of a Scoped identity that
\* finds the cache without it, as after a dispose, returns to the caller
\* with a newly made object in the cache; and a dispose calls the dispose
\* methods of the objects in the cache and of no other object.
C38_ScopeUsableAfterDispose ==
    /\ [](\A s \in Scopes : \A i \in CachedIn(s) :
             insts[i].disposed = 0 /\ insts[i].released = 0)
    /\ [][\A t \in Threads :
            (thr[t].pc = "create" /\ thr'[t].pc = "idle" /\ seen'.out = NoError) =>
               /\ scoped_instances'[thr[t].res][thr[t].ty] > Len(insts)
               /\ insts'[scoped_instances'[thr[t].res][thr[t].ty]].id = thr[t].ty
               /\ <<thr[t].res, thr[t].ty, scoped_instances'[thr[t].res][thr[t].ty]>>
                     \in rets']_vars
    /\ [][\A s \in Scopes :
            Dispose(s) =>
               \A i \in 1..Len(insts) :
                   insts'[i].disposed
                      = insts[i].disposed
                          + (IF i \in CachedIn(s) \cap Disposable THEN 1 ELSE 0)]_vars

\* C38 happens: the caller's latest call is a dispose on a scope that has
\* made two objects for one Scoped identity, the second after a dispose had
\* dropped the first, and each had its dispose method called once.
C38_Witness ==
    /\ seen.op = "dispose"
    /\ \E i, j \in Disposable :
          /\ i < j /\ insts[i].id = insts[j].id /\ HasLifetime(insts[i].id, Scoped)
          /\ insts[i].by = seen.res /\ insts[j].by = seen.res
          /\ insts[i].disposed = 1 /\ insts[j].disposed = 1
          /\ insts[i].released = 1 /\ insts[j].released = 1

====
